---- MODULE Spec2Model ----
(***************************************************************************)
(* State-machine model of the authentication core of blog-api:             *)
(*   routes/auth/register, routes/auth/login, routes/auth/refresh-token,   *)
(*   controllers/RefreshTokenController, controllers/UserController,       *)
(*   utils/jsonwebtoken, utils/configuration and the two mongoose models.  *)
(*                                                                         *)
(* Every request is handled by an async function.  Between two `await`s    *)
(* the handler runs without interruption (single JavaScript thread), so    *)
(* one action of the model is one such segment together with the database  *)
(* operation the segment ends with.  A client presents tokens it has       *)
(* received: those of the response sent last.                              *)
(***************************************************************************)
EXTENDS Integers, Sequences, FiniteSets, TLC

\* ------------------------------------------------------------------ bounds
MaxClock == 2          \* the wall clock runs from second 0 to second MaxClock
MaxOverlap == 0        \* requests overlap up to second MaxOverlap
MaxLifetime == 2       \* token lifetimes of the codec's configurations, in seconds

\* ------------------------------------------------------- program constants
MsPerSec == 1000       \* Date.now() is in milliseconds, the JWT clock in seconds
DEFAULT == 1           \* PermissionsBitfield.DEFAULT
MANAGE_BLOG == 2       \* PermissionsBitfield.MANAGE_BLOG
MANAGE_USERS == 4      \* PermissionsBitfield.MANAGE_USERS
Infinity == 1000000    \* Number("Infinity"): a number, and no integer

\* ------------------------------------------------------ types/permissions
RoleNames == {"user", "moderator", "admin"}

\* rolePermissions with an admin entry that leaves out DEFAULT
rolePermissionsAdminNoDefault ==
    [role \in RoleNames |->
        IF role = "user" THEN <<DEFAULT>>
        ELSE IF role = "moderator" THEN <<DEFAULT, MANAGE_BLOG>>
        ELSE <<MANAGE_BLOG, MANAGE_USERS>>]

\* rolePermissions with an admin entry that leaves out MANAGE_BLOG
rolePermissionsAdminNoBlog ==
    [role \in RoleNames |->
        IF role = "user" THEN <<DEFAULT>>
        ELSE IF role = "moderator" THEN <<DEFAULT, MANAGE_BLOG>>
        ELSE <<DEFAULT, MANAGE_USERS>>]

rolePermissions ==
    [role \in RoleNames |->
        IF role = "user" THEN <<DEFAULT>>
        ELSE IF role = "moderator" THEN <<DEFAULT, MANAGE_BLOG>>
        ELSE <<DEFAULT, MANAGE_BLOG, MANAGE_USERS>>]

\* a | b on non-negative integers
RECURSIVE BitOr(_, _)
BitOr(a, b) ==
    IF a = 0 THEN b
    ELSE IF b = 0 THEN a
    ELSE (IF a % 2 = 1 \/ b % 2 = 1 THEN 1 ELSE 0) + 2 * BitOr(a \div 2, b \div 2)

\* a & b on non-negative integers
RECURSIVE BitAnd(_, _)
BitAnd(a, b) ==
    IF a = 0 \/ b = 0 THEN 0
    ELSE (IF a % 2 = 1 /\ b % 2 = 1 THEN 1 ELSE 0) + 2 * BitAnd(a \div 2, b \div 2)

\* perms.reduce((acc, perm) => acc | perm, acc)
RECURSIVE Reduce(_, _)
Reduce(perms, acc) ==
    IF perms = <<>> THEN acc
    ELSE Reduce(Tail(perms), BitOr(acc, Head(perms)))

\* utils/calculatePermissions
calculatePermissions(role) == Reduce(rolePermissions[role], 0)

Procs == {1, 2}        \* the slots of the requests in flight
Emails == {"a@b.com", "c@d.com"}
RegPasswords == {"Passw0rd!"}
Passwords == RegPasswords \cup {"Wr0ngPass!"}
FullName(email) == IF email = "a@b.com" THEN "A B" ELSE "C D"
UserAgents == {"X", "Y"}

\* A nullable value is a set with at most one element.
None == {}
Some(v) == {v}
The(s) == CHOOSE v \in s : TRUE

VARIABLES
    configuration,   \* utils/configuration: the object built at startup
    now,             \* wall clock, in seconds
    users,           \* the documents of the "users" collection
    refresh_tokens,  \* the documents of the "refresh_tokens" collection
    pc,              \* per request slot: where its handler is suspended
    req,             \* per request slot: the request (body and headers)
    loc,             \* per request slot: the handler's local variables
    res,             \* the response sent last
    logged           \* what the handler step taken last wrote with logger.error

vars == <<configuration, now, users, refresh_tokens, pc, req, loc, res, logged>>

\* -------------------------------------------------------------------- time
\* Date.now()
DateNow == now * MsPerSec
\* Math.floor(Date.now() / 1000), the clock of jwt.sign and jwt.verify
ClockTimestamp == DateNow \div MsPerSec

\* ------------------------------------------------------- utils/jsonwebtoken
\* The payload part of a token string, base64url(JSON.stringify(payload)):
\* the keys in the order in which the object got them (those of the payload
\* that was passed to jwt.sign, then iat and exp), with their values.
Encoded(token) == <<token.keys, token.claims>>

\* HMAC-SHA256 of the encoded payload under a key: equal only for equal key
\* and equal payload part.
HS256(key, encoded) == <<key, encoded>>

\* the order in which an object literal of the handlers lists its keys
KeysOfLogin == "id,role,permissions,full_name"
KeysOfRefresh == "id,full_name,permissions,role"

\* jwt.sign(payload, key, {expiresIn}): copies the payload, adds iat and
\* exp = iat + expiresIn after the keys it has, and signs the encoded payload.
JwtSign(payload, key, expiresIn) ==
    LET body == [claims |-> [id |-> payload.id, full_name |-> payload.full_name,
                             role |-> payload.role,
                             permissions |-> payload.permissions,
                             iat |-> ClockTimestamp,
                             exp |-> ClockTimestamp + expiresIn],
                 keys |-> payload.keys]
    IN  [claims |-> body.claims, keys |-> body.keys,
         sig |-> HS256(key, Encoded(body))]

\* A string that is no JWT at all.
NoClaims == [id |-> 0, full_name |-> "", role |-> "", permissions |-> 0,
             iat |-> 0, exp |-> 0]
Malformed == [claims |-> NoClaims, keys |-> "", sig |-> <<"", NoClaims>>]

\* Number.isInteger: jwt.sign throws for an expiresIn that is a number and
\* not a whole number of seconds
IsInteger(n) == n # Infinity

\* jwt.sign throws: caught, logged, null returned
generateAccessToken(payload) ==
    IF ~IsInteger(configuration.EXPIRES_IN) THEN None
    ELSE Some([accessToken |-> JwtSign(payload, configuration.SECRET_KEY,
                                       configuration.EXPIRES_IN),
               expiresIn |-> configuration.EXPIRES_IN])

generateRefreshToken(payload) ==
    IF ~IsInteger(configuration.REFRESH_TOKEN_EXPIRES_IN) THEN None
    ELSE Some([refreshToken |-> JwtSign(payload,
                                        configuration.REFRESH_TOKEN_SECRET_KEY,
                                        configuration.REFRESH_TOKEN_EXPIRES_IN)])

\* jwt.verify with ignoreExpiration: only the signature is checked
verifyTokenNoExpiry(token, secret_key) ==
    IF token.sig = HS256(secret_key, Encoded(token))
    THEN Some(token.claims) ELSE None

\* jwt.decode in the place of jwt.verify: the signature is not checked
verifyTokenUnsigned(token, secret_key) ==
    IF token # Malformed /\ ClockTimestamp < token.claims.exp
    THEN Some(token.claims) ELSE None

\* jwt.verify with clockTolerance 1: a token is still accepted at its exp
verifyTokenGrace(token, secret_key) ==
    IF /\ token.sig = HS256(secret_key, Encoded(token))
       /\ ClockTimestamp < token.claims.exp + 1
    THEN Some(token.claims) ELSE None

\* jwt.verify throws on a bad signature and when clockTimestamp >= exp;
\* verifyToken turns the exception into null.
verifyToken(token, secret_key) ==
    IF /\ token.sig = HS256(secret_key, Encoded(token))
       /\ ClockTimestamp < token.claims.exp
    THEN Some(token.claims) ELSE None

\* what verifyToken writes with logger.error: jwt.verify decodes the token,
\* then checks its signature, then its exp, and throws at the first failure
verifyTokenLogged(token, secret_key) ==
    IF token = Malformed THEN "Verify Token Failed: jwt malformed"
    ELSE IF token.sig # HS256(secret_key, Encoded(token))
    THEN "Verify Token Failed: invalid signature"
    ELSE IF ClockTimestamp >= token.claims.exp
    THEN "Verify Token Failed: jwt expired"
    ELSE ""

\* verifyAccessToken that asks the store for a session of the token's user
verifyAccessTokenOnRecord(token) ==
    IF \E d \in refresh_tokens : d.userId = token.claims.id
    THEN verifyToken(token, configuration.SECRET_KEY) ELSE None

\* verifyAccessToken that accepts an access token past its exp
verifyAccessTokenNoExpiry(token) ==
    verifyTokenNoExpiry(token, configuration.SECRET_KEY)

verifyAccessToken(token) == verifyToken(token, configuration.SECRET_KEY)

\* verifyRefreshToken pinned to the access secret
verifyRefreshTokenAccessKey(token) == verifyToken(token, configuration.SECRET_KEY)

verifyRefreshToken(token) == verifyToken(token, configuration.REFRESH_TOKEN_SECRET_KEY)

\* ---------------------------------------------------------- utils/password
hashPassword(password) == <<"bcrypt", password>>
comparePassword(password, hashed) == hashed = hashPassword(password)

\* ------------------------------------------------------- UserController
\* findOne({email}): a document with that email, or null
findByUserEmail(email) ==
    LET hits == {u \in users : u.email = email}
    IN  IF hits = {} THEN None ELSE Some(CHOOSE u \in hits : TRUE)

\* new UserModel(user).save(): a new ObjectId (here the number of the email)
\* and the schema's defaults for role and permissions
ObjectId(email) == IF email = "a@b.com" THEN 1 ELSE 2

\* a schema whose default for permissions is 0
NewUserNoPermissions(email, password, full_name) ==
    [id |-> ObjectId(email), email |-> email, password |-> password,
     full_name |-> full_name, role |-> "user", permissions |-> 0]

NewUser(email, password, full_name) ==
    [id |-> ObjectId(email), email |-> email, password |-> password,
     full_name |-> full_name, role |-> "user", permissions |-> DEFAULT]

\* ------------------------------------------------ RefreshTokenController
\* deleteMany({userId, userAgent}), a filter that requires both fields to
\* match: the documents that stay
revokeBothMatch(userId, userAgent) ==
    {d \in refresh_tokens : ~(d.userId = userId /\ d.userAgent = userAgent)}

\* deleteMany({}), a filter that matches every document: none stays
revokeEveryRecord(userId, userAgent) == {}

\* deleteMany({$or: [{userId}, {userAgent}]}): the documents that stay
revokeUserRefreshTokensByUserAgent(userId, userAgent) ==
    {d \in refresh_tokens : ~(d.userId = userId \/ d.userAgent = userAgent)}

\* save() into a collection without the unique index
DuplicateKeyNever(doc) == FALSE

\* save() under a unique compound index on (userId, userAgent)
DuplicateKeyOfPair(doc) ==
    \E d \in refresh_tokens :
        d.userId = doc.userId /\ d.userAgent = doc.userAgent

\* save(): the unique index on userAgent rejects a second document of a context

DuplicateKey(doc) ==
    \E d \in refresh_tokens : d.userAgent = doc.userAgent

\* findOne({refreshToken: token, userAgent}), when the filter has the token only
findRefreshTokenAnyAgent(token, userAgent) ==
    LET hits == {d \in refresh_tokens : d.refreshToken = token}
    IN  IF hits = {} THEN None ELSE Some(CHOOSE d \in hits : TRUE)

\* findOne({refreshToken: token, userAgent})
findRefreshToken(token, userAgent) ==
    LET hits == {d \in refresh_tokens :
                    d.refreshToken = token /\ d.userAgent = userAgent}
    IN  IF hits = {} THEN None ELSE Some(CHOOSE d \in hits : TRUE)

\* --------------------------------------------------------------- responses
NoLoc == [existingUser |-> None, accessTokenResult |-> None,
          refreshTokenResult |-> None, user |-> None, foundToken |-> None,
          deletedCount |-> 0, overlapped |-> FALSE]
NoReq == [op |-> "", email |-> "", password |-> "", full_name |-> "",
          userAgent |-> "", refresh_token |-> None]
\* `userAgent` is the client context a login answer goes to
NoRes == [op |-> "", status |-> 0, message |-> "", access_token |-> None,
          expires_in |-> 0, refresh_token |-> None, userAgent |-> ""]

\* next(new BadRequestError(m)), next(new ServerFailedError(m)), ...
Error(op, status, message) ==
    [NoRes EXCEPT !.op = op, !.status = status, !.message = message]

\* utils/configuration accepts every value of EXPIRES_IN and of
\* REFRESH_TOKEN_EXPIRES_IN that Number() does not turn into NaN
Deployed == [SECRET_KEY |-> "access-secret",
             REFRESH_TOKEN_SECRET_KEY |-> "refresh-secret",
             EXPIRES_IN |-> 3,
             REFRESH_TOKEN_EXPIRES_IN |-> 2]
StartupConfigurations ==
    {Deployed, [Deployed EXCEPT !.EXPIRES_IN = Infinity],
     [Deployed EXCEPT !.REFRESH_TOKEN_EXPIRES_IN = Infinity]}

Init ==
    /\ configuration \in StartupConfigurations
    /\ now = 0
    /\ users = {}
    /\ refresh_tokens = {}
    /\ pc = [p \in Procs |-> "idle"]
    /\ req = [p \in Procs |-> NoReq]
    /\ loc = [p \in Procs |-> NoLoc]
    /\ res = NoRes
    /\ logged = ""

InFlight == {q \in Procs : pc[q] # "idle"}

\* A request that arrives is handled in the lowest slot that is free.  It
\* joins requests in flight only up to second MaxOverlap, and only requests
\* suspended at one of `joins`: a register overlaps with registers only,
\* because all it shares with the other routes is the users collection, which
\* login reads in the step in which it arrives, so that every interleaving
\* of the two is one of their two orders.
Free(p, joins) ==
    /\ pc[p] = "idle"
    /\ \A q \in Procs : q < p => pc[q] # "idle"
    /\ \/ InFlight = {}
       \/ now <= MaxOverlap /\ \A q \in InFlight : pc[q] \in joins

\* The handler of slot p sends r and returns.
Answer(p, r) ==
    /\ pc' = [pc EXCEPT ![p] = "idle"]
    /\ req' = [req EXCEPT ![p] = NoReq]
    /\ loc' = [loc EXCEPT ![p] = NoLoc]
    /\ res' = r

\* A handler that hands an error to next(): BadRequestError is 400,
\* UnauthorizedError 401, ServerFailedError 500.
Reject(p, status, message) == Answer(p, Error(req[p].op, status, message))

\* A request whose handler fails before its first await.
RejectAtOnce(op, status, message) ==
    /\ res' = Error(op, status, message)
    /\ UNCHANGED <<pc, req, loc>>

\* A handler that suspends at an await: slot p holds request r and locals l.
Suspend(p, r, l, at) ==
    /\ pc' = [pc EXCEPT ![p] = at]
    /\ req' = [req EXCEPT ![p] = r]
    /\ loc' = [loc EXCEPT ![p] = l]
    /\ UNCHANGED res

\* ------------------------------------------------------------------ clock
\* Requests that overlap are through by the end of second MaxOverlap.
Tick ==
    /\ now < MaxClock
    /\ now < MaxOverlap \/ Cardinality(InFlight) <= 1
    /\ now' = now + 1
    /\ UNCHANGED <<configuration, users, refresh_tokens, pc, req, loc, res, logged>>

\* The TTL index {expiresAt: 1} with expireAfterSeconds 0: a background pass of
\* the database removes the documents whose expiresAt has passed.
Expired(doc) == doc.expiresAt <= DateNow

TTLMonitor ==
    /\ \E d \in refresh_tokens : Expired(d)
    /\ refresh_tokens' = {d \in refresh_tokens : ~Expired(d)}
    /\ UNCHANGED <<configuration, now, users, pc, req, loc, res, logged>>

\* --------------------------------------------------------------- register
\* register, up to `await UserController.findByUserEmail(email)`
RegisterFind(p) ==
    /\ Free(p, {"g_found"})
    /\ \E email \in Emails \cup {""}, password \in RegPasswords :
        LET r == [NoReq EXCEPT !.op = "register", !.email = email,
                               !.password = password,
                               !.full_name = FullName(email)]
        IN  IF email = ""
            THEN RejectAtOnce("register", 400,
                              "Email, password, and full name are required fields")
            ELSE Suspend(p, r, [NoLoc EXCEPT !.existingUser = findByUserEmail(email)],
                         "g_found")
    /\ logged' = ""
    /\ UNCHANGED <<configuration, now, users, refresh_tokens>>

\* register, from the user lookup's result to the response
RegisterCreate(p) ==
    /\ pc[p] = "g_found"
    /\ IF loc[p].existingUser # None
       THEN /\ Reject(p, 400, "User is already registered")
            /\ UNCHANGED users
       ELSE IF findByUserEmail(req[p].email) # None
       THEN \* the unique index on email: E11000, which is no ValidationError
            /\ Reject(p, 500, "E11000 duplicate key error")
            /\ UNCHANGED users
       ELSE /\ users' = users \cup {NewUser(req[p].email,
                                    hashPassword(req[p].password), req[p].full_name)}
            /\ Answer(p, [NoRes EXCEPT !.op = "register", !.status = 201,
                                       !.message = "Created a user successfully"])
    /\ logged' = ""
    /\ UNCHANGED <<configuration, now, refresh_tokens>>

\* ------------------------------------------------------------------ login
\* the logins in flight for the pair (email, userAgent)
SamePair(email, userAgent) ==
    {q \in Procs : /\ pc[q] = "l_revoked"
                   /\ req[q].email = email
                   /\ req[q].userAgent = userAgent}

\* the payload login signs: the fields of the user document
loginPayload(existingUser) ==
    [id |-> existingUser.id, role |-> existingUser.role,
     permissions |-> existingUser.permissions,
     full_name |-> existingUser.full_name, keys |-> KeysOfLogin]

\* login with the User-Agent header checked before the tokens are generated
loginRejectionAgentFirst(email, password, userAgent) ==
    LET found == findByUserEmail(email)
        existingUser == The(found)
    IN  IF email = "" \/ password = ""
        THEN Some(Error("login", 400, "Email and password are required fields."))
        ELSE IF found = None
        THEN Some(Error("login", 400, "The user is not registered."))
        ELSE IF ~comparePassword(password, existingUser.password)
        THEN Some(Error("login", 400, "Password is incorrect."))
        ELSE IF userAgent = ""
        THEN Some(Error("login", 400, "User-Agent header is missing"))
        ELSE IF generateAccessToken(loginPayload(existingUser)) = None
        THEN Some(Error("login", 500, "Failed to generate access token."))
        ELSE IF generateRefreshToken(loginPayload(existingUser)) = None
        THEN Some(Error("login", 500, "Failed to generate refresh token."))
        ELSE None

\* login's checks, in the order of the code: the error handed to next(), or
\* None when the request passes them all
loginRejection(email, password, userAgent) ==
    LET found == findByUserEmail(email)
        existingUser == The(found)
    IN  IF email = "" \/ password = ""
        THEN Some(Error("login", 400, "Email and password are required fields."))
        ELSE IF found = None
        THEN Some(Error("login", 400, "The user is not registered."))
        ELSE IF ~comparePassword(password, existingUser.password)
        THEN Some(Error("login", 400, "Password is incorrect."))
        ELSE IF generateAccessToken(loginPayload(existingUser)) = None
        THEN Some(Error("login", 500, "Failed to generate access token."))
        ELSE IF generateRefreshToken(loginPayload(existingUser)) = None
        THEN Some(Error("login", 500, "Failed to generate refresh token."))
        ELSE IF userAgent = ""
        THEN Some(Error("login", 400, "User-Agent header is missing"))
        ELSE None

\* what generateAccessToken and generateRefreshToken write with logger.error
\* in a login that is rejected with `rejection`
loginLogged(rejection) ==
    IF rejection = Some(Error("login", 500, "Failed to generate access token."))
    THEN "Generate Token Failed"
    ELSE IF rejection = Some(Error("login", 500, "Failed to generate refresh token."))
    THEN "Generate Refresh Token Failed"
    ELSE ""

\* a login that revokes as soon as it has found the user, before the checks
\* of the password, of the tokens and of the User-Agent
LoginRevokeOnLookup(p) ==
    /\ Free(p, {"l_revoked", "r_found"})
    /\ \E email \in Emails \cup {""}, password \in Passwords \cup {""},
          userAgent \in UserAgents \cup {""} :
        LET r == [NoReq EXCEPT !.op = "login", !.email = email,
                               !.password = password, !.userAgent = userAgent]
            rejection == loginRejection(email, password, userAgent)
            found == findByUserEmail(email)
            existingUser == The(found)
        IN  IF rejection # None
            THEN /\ res' = The(rejection)
                 /\ logged' = loginLogged(rejection)
                 /\ refresh_tokens' =
                       IF found = None THEN refresh_tokens
                       ELSE revokeUserRefreshTokensByUserAgent(
                                existingUser.id, userAgent)
                 /\ UNCHANGED <<pc, req, loc>>
            ELSE \E fault \in BOOLEAN :
                 \* deleteMany throws: caught, logged, false returned
                 LET after == IF fault THEN refresh_tokens
                              ELSE revokeUserRefreshTokensByUserAgent(
                                       existingUser.id, userAgent)
                     others == SamePair(email, userAgent)
                 IN  /\ refresh_tokens' = after
                     /\ logged' = IF fault THEN "Error revoking tokens" ELSE ""
                     /\ pc' = [pc EXCEPT ![p] = "l_revoked"]
                     /\ req' = [req EXCEPT ![p] = r]
                     /\ loc' = [q \in Procs |->
                          IF q = p
                          THEN [NoLoc EXCEPT
                                  !.existingUser = found,
                                  !.accessTokenResult =
                                      generateAccessToken(loginPayload(existingUser)),
                                  !.refreshTokenResult =
                                      generateRefreshToken(loginPayload(existingUser)),
                                  !.deletedCount = Cardinality(refresh_tokens \ after),
                                  !.overlapped = others # {}]
                          ELSE IF q \in others
                          THEN [loc[q] EXCEPT !.overlapped = TRUE]
                          ELSE loc[q]]
                     /\ UNCHANGED res
    /\ UNCHANGED <<configuration, now, users>>

\* login, up to `await revokeUserRefreshTokensByUserAgent(...)`.  The awaits
\* of the user lookup and of comparePassword are part of this step: what the
\* handler reads there is written by no other handler in a way that it could
\* tell apart from a later arrival.
LoginRevoke(p) ==
    /\ Free(p, {"l_revoked", "r_found"})
    /\ \E email \in Emails \cup {""}, password \in Passwords \cup {""},
          userAgent \in UserAgents \cup {""} :
        LET r == [NoReq EXCEPT !.op = "login", !.email = email,
                               !.password = password, !.userAgent = userAgent]
            rejection == loginRejection(email, password, userAgent)
            found == findByUserEmail(email)
            existingUser == The(found)
        IN  IF rejection # None
            THEN /\ res' = The(rejection)
                 /\ logged' = loginLogged(rejection)
                 /\ UNCHANGED <<pc, req, loc, refresh_tokens>>
            ELSE \E fault \in BOOLEAN :
                 \* deleteMany throws: caught, logged, false returned
                 LET after == IF fault THEN refresh_tokens
                              ELSE revokeUserRefreshTokensByUserAgent(
                                       existingUser.id, userAgent)
                     others == SamePair(email, userAgent)
                 IN  /\ refresh_tokens' = after
                     /\ logged' = IF fault THEN "Error revoking tokens" ELSE ""
                     /\ pc' = [pc EXCEPT ![p] = "l_revoked"]
                     /\ req' = [req EXCEPT ![p] = r]
                     /\ loc' = [q \in Procs |->
                          IF q = p
                          THEN [NoLoc EXCEPT
                                  !.existingUser = found,
                                  !.accessTokenResult =
                                      generateAccessToken(loginPayload(existingUser)),
                                  !.refreshTokenResult =
                                      generateRefreshToken(loginPayload(existingUser)),
                                  !.deletedCount = Cardinality(refresh_tokens \ after),
                                  !.overlapped = others # {}]
                          ELSE IF q \in others
                          THEN [loc[q] EXCEPT !.overlapped = TRUE]
                          ELSE loc[q]]
                     /\ UNCHANGED res
    /\ UNCHANGED <<configuration, now, users>>

\* login, from `await createRefreshToken(...)` to the 201 response
LoginCreate(p) ==
    /\ pc[p] = "l_revoked"
    /\ \E fault \in BOOLEAN :
        \* save() throws, on a fault or on a duplicate key: caught, logged, null returned
        LET existingUser == The(loc[p].existingUser)
            accessTokenResult == The(loc[p].accessTokenResult)
            refreshTokenResult == The(loc[p].refreshTokenResult)
            doc == [userId |-> existingUser.id,
                    refreshToken |-> refreshTokenResult.refreshToken,
                    expiresAt |-> DateNow + configuration.REFRESH_TOKEN_EXPIRES_IN,
                    userAgent |-> req[p].userAgent]
            duplicate == DuplicateKey(doc)
        IN  /\ refresh_tokens' = IF ~fault /\ ~duplicate
                                 THEN refresh_tokens \cup {doc}
                                 ELSE refresh_tokens
            /\ logged' = IF fault THEN "Refresh Token Create Failed: fault"
                         ELSE IF duplicate
                         THEN "Refresh Token Create Failed: E11000 duplicate key error"
                         ELSE ""
            /\ Answer(p, [op |-> "login", status |-> 201,
                          message |-> "Login successful",
                          access_token |-> Some(accessTokenResult.accessToken),
                          expires_in |-> accessTokenResult.expiresIn,
                          refresh_token |-> Some(refreshTokenResult.refreshToken),
                          userAgent |-> req[p].userAgent])
    /\ UNCHANGED <<configuration, now, users>>

\* ---------------------------------------------------------- refresh-token
\* a token whose payload was edited after it was signed: more permissions
\* under the signature of the original claims
Tampered(token) ==
    [token EXCEPT !.claims.permissions = token.claims.permissions + MANAGE_USERS]

\* what a client can put into a token field: nothing, a string that is no
\* token, or a token of the response sent last
Presented == {None, Some(Malformed), res.access_token, res.refresh_token}

\* ... or, in the field that `own` belongs into, that token tampered with
PresentedAs(own) == Presented \cup {Some(Tampered(t)) : t \in own}

\* middlewares/authentication: the bearer token of the Authorization header,
\* verified against the access secret; the decoded payload becomes req.user
authentication(authorization) ==
    IF authorization = None THEN None
    ELSE verifyAccessToken(The(authorization))

\* refreshToken without the check of the User-Agent header
refreshTokenRejectionAnyAgent(refresh_token, userAgent) ==
    IF refresh_token = None
    THEN Some(Error("refresh-token", 400, "refresh_token required field."))
    ELSE IF verifyRefreshToken(The(refresh_token)) = None
    THEN Some(Error("refresh-token", 400, "Invalid refresh token."))
    ELSE None

\* refreshToken's checks of the body and the headers, in the order of the
\* code: the error handed to next(), or None when the request passes
refreshTokenRejection(refresh_token, userAgent) ==
    IF refresh_token = None
    THEN Some(Error("refresh-token", 400, "refresh_token required field."))
    ELSE IF verifyRefreshToken(The(refresh_token)) = None
    THEN Some(Error("refresh-token", 400, "Invalid refresh token."))
    ELSE IF userAgent = ""
    THEN Some(Error("refresh-token", 400, "user agent missing"))
    ELSE None

\* what the verifications of a refresh request write with logger.error: the
\* message of the exception that verifyToken caught last
refreshTokenLogged(authorization, refresh_token) ==
    IF authorization = None THEN ""
    ELSE LET guard == verifyTokenLogged(The(authorization),
                                        configuration.SECRET_KEY)
         IN  IF guard # "" THEN guard
             ELSE IF refresh_token = None THEN ""
             ELSE verifyTokenLogged(The(refresh_token),
                                    configuration.REFRESH_TOKEN_SECRET_KEY)

\* the route: authentication, then refreshToken.  What a request is answered
\* before the handler's first await, or None when the handler gets there
refreshTokenAnswer(authorization, refresh_token, userAgent) ==
    IF authentication(authorization) = None
    THEN Some(Error("refresh-token", 401, "UnauthorizedError"))
    ELSE refreshTokenRejection(refresh_token, userAgent)

\* one refresh request: the authentication middleware, then refreshToken up
\* to `await RefreshTokenController.findRefreshToken(refresh_token, userAgent)`
RefreshRequest(p, authorization, refresh_token, userAgent) ==
    /\ Free(p, {"l_revoked", "r_found"})
    /\ LET r == [NoReq EXCEPT !.op = "refresh-token",
                              !.refresh_token = refresh_token,
                              !.userAgent = userAgent]
           user == authentication(authorization)
           answer == refreshTokenAnswer(authorization, refresh_token, userAgent)
       IN  IF answer # None
           THEN /\ res' = The(answer)
                /\ UNCHANGED <<pc, req, loc>>
           ELSE \E fault \in BOOLEAN :
                \* findOne throws: caught, null returned
                Suspend(p, r,
                     [NoLoc EXCEPT
                        !.user = user,
                        !.foundToken =
                            IF fault THEN None
                            ELSE findRefreshToken(The(refresh_token), userAgent)],
                     "r_found")
    /\ logged' = refreshTokenLogged(authorization, refresh_token)
    /\ UNCHANGED <<configuration, now, users, refresh_tokens>>

\* The refresh requests a client sends.  The guard reads the Authorization
\* header only: of the requests it rejects, those are drawn that carry the
\* refresh token and the context of the response sent last, the requests
\* that the handler would have the most reason to serve.
RefreshFind(p) ==
    \E authorization \in PresentedAs(res.access_token) :
        IF authentication(authorization) = None
        THEN RefreshRequest(p, authorization, res.refresh_token, res.userAgent)
        ELSE \E refresh_token \in PresentedAs(res.refresh_token),
                userAgent \in UserAgents \cup {""} :
                RefreshRequest(p, authorization, refresh_token, userAgent)

\* a payload for the owner of the record that was found, with the other
\* claims of req.user
refreshTokenPayloadOfOwner(user, foundToken) ==
    [id |-> foundToken.userId, full_name |-> user.full_name,
     permissions |-> user.permissions, role |-> user.role,
     keys |-> KeysOfRefresh]

\* the payload taken from the refresh token of the record that was found
refreshTokenPayloadOfRecord(user, foundToken) ==
    LET claims == foundToken.refreshToken.claims
    IN  [id |-> claims.id, full_name |-> claims.full_name,
         permissions |-> claims.permissions, role |-> claims.role,
         keys |-> KeysOfRefresh]

\* the payload refreshToken signs: the fields of req.user
refreshTokenPayload(user, foundToken) ==
    [id |-> user.id, full_name |-> user.full_name,
     permissions |-> user.permissions, role |-> user.role,
     keys |-> KeysOfRefresh]

\* a refreshToken that rotates: it deletes the record it has found
RefreshRespondRotating(p) ==
    /\ pc[p] = "r_found"
    /\ LET accessTokenResult ==
               generateAccessToken(
                   refreshTokenPayload(The(loc[p].user), The(loc[p].foundToken)))
       IN
       IF loc[p].foundToken = None
       THEN Reject(p, 400, "Invalid refresh token.")
       ELSE Answer(p, [NoRes EXCEPT
                         !.op = "refresh-token",
                         !.status = 201,
                         !.message = "Created a access token",
                         !.access_token = Some(The(accessTokenResult).accessToken),
                         !.expires_in = The(accessTokenResult).expiresIn])
    /\ refresh_tokens' = refresh_tokens \ loc[p].foundToken
    /\ logged' = ""
    /\ UNCHANGED <<configuration, now, users>>

\* refreshToken, from the lookup's result to the response
RefreshRespond(p) ==
    /\ pc[p] = "r_found"
    /\ LET accessTokenResult ==
               generateAccessToken(
                   refreshTokenPayload(The(loc[p].user), The(loc[p].foundToken)))
       IN
       IF loc[p].foundToken = None
       THEN Reject(p, 400, "Invalid refresh token.")
       ELSE IF accessTokenResult = None
       THEN Reject(p, 500, "Failed to generate token.")
       ELSE Answer(p, [NoRes EXCEPT
                         !.op = "refresh-token",
                         !.status = 201,
                         !.message = "Created a access token",
                         !.access_token = Some(The(accessTokenResult).accessToken),
                         !.expires_in = The(accessTokenResult).expiresIn])
    /\ logged' = ""
    /\ UNCHANGED <<configuration, now, users, refresh_tokens>>

\* ---------------------------------------------------------- specification
Next ==
    \/ Tick
    \/ TTLMonitor
    \/ \E p \in Procs : RegisterFind(p)
    \/ \E p \in Procs : RegisterCreate(p)
    \/ \E p \in Procs : LoginRevoke(p)
    \/ \E p \in Procs : LoginCreate(p)
    \/ \E p \in Procs : RefreshFind(p)
    \/ \E p \in Procs : RefreshRespond(p)

Spec == Init /\ [][Next]_vars

\* ------------------------------------------------- the token codec alone
\* The values utils/configuration can hold after startup: two non-empty
\* secrets, equal or not, and two numeric lifetimes.
Secrets == {"access-secret", "refresh-secret"}
Lifetimes == 1..MaxLifetime
Configurations ==
    [SECRET_KEY : Secrets, REFRESH_TOKEN_SECRET_KEY : Secrets,
     EXPIRES_IN : Lifetimes, REFRESH_TOKEN_EXPIRES_IN : Lifetimes]

\* the payloads the handlers sign
Principals ==
    [id : {ObjectId(e) : e \in Emails}, full_name : {"A B"},
     role : {"user", "admin"}, permissions : {DEFAULT, DEFAULT + MANAGE_BLOG},
     keys : {KeysOfLogin}]

InitCodec ==
    /\ configuration \in Configurations
    /\ now = 0
    /\ users = {}
    /\ refresh_tokens = {}
    /\ pc = [p \in Procs |-> "idle"]
    /\ req = [p \in Procs |-> NoReq]
    /\ loc = [p \in Procs |-> NoLoc]
    /\ res = NoRes
    /\ logged = ""

\* generateAccessToken(payload), its result shown in res; the caller keeps
\* the payload it passed in its local `user`
IssueAccess ==
    /\ \E payload \in Principals :
         LET accessTokenResult == generateAccessToken(payload)
         IN  /\ res' = [res EXCEPT
                          !.op = "generateAccessToken",
                          !.access_token = Some(The(accessTokenResult).accessToken),
                          !.expires_in = The(accessTokenResult).expiresIn]
             /\ loc' = [loc EXCEPT ![1].user = Some(payload)]
    /\ UNCHANGED <<configuration, now, users, refresh_tokens, pc, req, logged>>

\* generateRefreshToken(payload), its result shown in res
IssueRefresh ==
    /\ \E payload \in Principals :
         LET refreshTokenResult == generateRefreshToken(payload)
         IN  res' = [res EXCEPT
                       !.op = "generateRefreshToken",
                       !.refresh_token = Some(The(refreshTokenResult).refreshToken)]
    /\ UNCHANGED <<configuration, now, users, refresh_tokens, pc, req, loc, logged>>

NextCodec ==
    \/ Tick
    \/ IssueAccess
    \/ IssueRefresh

SpecCodec == InitCodec /\ [][NextCodec]_vars

\* ------------------------------------------- requests one after another
\* The refresh tokens a client can send when it holds on to tokens: those
\* above, and the refresh token of an earlier login that is on record, its
\* own or one it got hold of.
PresentedRefresh ==
    PresentedAs(res.refresh_token)
    \cup {Some(d.refreshToken) : d \in refresh_tokens}

\* the refresh requests of such clients
RefreshHeld(p) ==
    \E authorization \in PresentedAs(res.access_token) :
        IF authentication(authorization) = None
        THEN RefreshRequest(p, authorization, res.refresh_token, res.userAgent)
        ELSE \E refresh_token \in PresentedRefresh,
                userAgent \in UserAgents \cup {""} :
                RefreshRequest(p, authorization, refresh_token, userAgent)

\* An administrator gives a user a role in the database, with the
\* permissions of that role.
SetRole(u, role) ==
    /\ users' = (users \ {u})
                 \cup {[u EXCEPT !.role = role,
                                 !.permissions = calculatePermissions(role)]}
    /\ UNCHANGED <<configuration, now, refresh_tokens, pc, req, loc, res, logged>>

\* One user who can be promoted to admin is enough to tell the role in a
\* token from the role in the user document.
Promoted == {"a@b.com"}

PromoteUser ==
    \E u \in {v \in users : v.email \in Promoted /\ v.role # "admin"} :
        SetRole(u, "admin")

\* The server with one request in flight at a time, deployed as above or
\* with access tokens that expire before the refresh tokens do.
InitSerial ==
    /\ configuration \in StartupConfigurations
                          \cup {[Deployed EXCEPT !.EXPIRES_IN = 1]}
    /\ now = 0
    /\ users = {}
    /\ refresh_tokens = {}
    /\ pc = [p \in Procs |-> "idle"]
    /\ req = [p \in Procs |-> NoReq]
    /\ loc = [p \in Procs |-> NoLoc]
    /\ res = NoRes
    /\ logged = ""

NextSerial ==
    \/ Tick
    \/ TTLMonitor
    \/ PromoteUser
    \/ RegisterFind(1)
    \/ RegisterCreate(1)
    \/ LoginRevoke(1)
    \/ LoginCreate(1)
    \/ RefreshHeld(1)
    \/ RefreshRespond(1)

SpecSerial == InitSerial /\ [][NextSerial]_vars

\* ------------------------------------- one client, one request at a time
\* The server as deployed, with the requests of one client that waits for
\* each answer and presents the tokens of the response sent last.
NextAlone ==
    \/ Tick
    \/ TTLMonitor
    \/ RegisterFind(1)
    \/ RegisterCreate(1)
    \/ LoginRevoke(1)
    \/ LoginCreate(1)
    \/ RefreshFind(1)
    \/ RefreshRespond(1)

SpecAlone == Init /\ [][NextAlone]_vars

\* ------------------------------------------- the roles of the users alone
\* An administrator gives any user any other role.
GrantRole ==
    \E u \in users : \E role \in RoleNames \ {u.role} : SetRole(u, role)

\* Users register and are given roles.
NextRoles ==
    \/ RegisterFind(1)
    \/ RegisterCreate(1)
    \/ GrantRole

SpecRoles == Init /\ [][NextRoles]_vars

\* --------------------------------------- logins of users whose role changes
\* The role of a user document is rewritten in the database.  `role` and
\* `permissions` are two fields of the schema: the edit of the one leaves the
\* other as it is.
UpdateRole ==
    /\ \E u \in users : \E role \in RoleNames \ {u.role} :
          users' = (users \ {u}) \cup {[u EXCEPT !.role = role]}
    /\ UNCHANGED <<configuration, now, refresh_tokens, pc, req, loc, res, logged>>

\* login when the findOne of UserController.findByUserEmail rejects: neither
\* findByUserEmail nor login catches, the promise of the handler is rejected
\* and no response is sent.  The request stays as it is, unanswered.
LoginLookupThrows(p) ==
    /\ Free(p, {"l_revoked", "r_found"})
    /\ \E email \in Emails, password \in Passwords, userAgent \in UserAgents \cup {""} :
          Suspend(p, [NoReq EXCEPT !.op = "login", !.email = email,
                                   !.password = password, !.userAgent = userAgent],
                  NoLoc, "l_thrown")
    /\ logged' = ""
    /\ UNCHANGED <<configuration, now, users, refresh_tokens>>

\* Users register, their roles are edited, and they log in; the database
\* may fail a lookup of login.
NextLogins ==
    \/ RegisterFind(1)
    \/ RegisterCreate(1)
    \/ UpdateRole
    \/ LoginRevoke(1)
    \/ LoginLookupThrows(1)
    \/ LoginCreate(1)

SpecLogins == Init /\ [][NextLogins]_vars

\* ------------------------------------------- requests that run to their end
\* One request at a time on all three routes; the database may fail a lookup
\* of login.
NextEnds ==
    \/ NextAlone
    \/ LoginLookupThrows(1)

\* An await on a store operation settles, whether the operation succeeds or
\* fails, and the event loop then resumes the handler that waits for it: a
\* suspended register, login or refresh takes its next step.  A handler whose
\* promise was rejected has no step left to take.
SpecEnds ==
    /\ Init /\ [][NextEnds]_vars
    /\ WF_vars(RegisterCreate(1))
    /\ WF_vars(LoginCreate(1))
    /\ WF_vars(RefreshRespond(1))

\* ------------------------------------------------------------- properties
UserIds == {ObjectId(e) : e \in Emails}

\* the documents of `store` that user `userId` owns on context `userAgent`
PairRecords(store, userId, userAgent) ==
    {d \in store : d.userId = userId /\ d.userAgent = userAgent}

\* the step that ends the login of slot p
LoginCompletes(p) == pc[p] = "l_revoked" /\ pc'[p] = "idle"

\* the step in which the refresh of slot p gets the result of its lookup
LookupReturns(p) == pc[p] = "idle" /\ pc'[p] = "r_found"

\* C1: in every reachable state the store holds at most one refresh record
\* for each (user, client context) pair.
AtMostOneRecordPerPair ==
    \A userId \in UserIds, userAgent \in UserAgents :
        Cardinality(PairRecords(refresh_tokens, userId, userAgent)) <= 1

\* a login of user 1 from X has just been answered whose record the unique
\* index refused, and the pair's record is in the store
WitnessRefusedSecondRecord ==
    /\ res.op = "login" /\ res.userAgent = "X"
    /\ res.refresh_token # None
    /\ The(res.refresh_token).claims.id = 1
    /\ logged = "Refresh Token Create Failed: E11000 duplicate key error"
    /\ PairRecords(refresh_tokens, 1, "X") # {}

\* C2: when logins of the same (user, client context) pair have overlapped,
\* the store holds exactly one record of the pair once the last of them has
\* completed.
OverlappingLoginsLeaveOneRecord ==
    [][\A p \in Procs :
         (/\ LoginCompletes(p)
          /\ loc[p].overlapped
          /\ SamePair(req[p].email, req[p].userAgent) = {p})
         => Cardinality(PairRecords(refresh_tokens',
                The(loc[p].existingUser).id, req[p].userAgent)) = 1]_vars

\* C3: a login answered 201 has its refresh token on record in the store when
\* the response is sent.
Every201LoginPersisted ==
    [][\A p \in Procs :
         (LoginCompletes(p) /\ res'.status = 201)
         => \E d \in refresh_tokens' :
               /\ d.refreshToken = The(res'.refresh_token)
               /\ d.userAgent = res'.userAgent]_vars

\* C4: once a later login of a (user, client context) pair has completed, no
\* record of the pair carries another refresh token than the one that login
\* returned, so that the token of the earlier login finds no record.
SecondLoginRevokesFirst ==
    [][\A p \in Procs :
         (LoginCompletes(p) /\ ~loc[p].overlapped)
         => \A d \in PairRecords(refresh_tokens',
                    The(loc[p].existingUser).id, req[p].userAgent) :
               d.refreshToken = The(res'.refresh_token)]_vars

\* C5: the lookup of a refresh gives a record only if the store holds it with
\* the presented token string and the request's User-Agent, and the refresh
\* answers with an access token only if the lookup gave a record: without one
\* it answers invalid-token.
RefreshMintsOnlyOnMatch ==
    [][\A p \in Procs :
         /\ (LookupReturns(p) /\ loc'[p].foundToken # None)
            => /\ The(loc'[p].foundToken) \in refresh_tokens
               /\ The(loc'[p].foundToken).refreshToken = The(req'[p].refresh_token)
               /\ The(loc'[p].foundToken).userAgent = req'[p].userAgent
         /\ (pc[p] = "r_found" /\ pc'[p] = "idle")
            => IF loc[p].foundToken = None
               THEN res' = Error("refresh-token", 400, "Invalid refresh token.")
               ELSE res'.status = 201 /\ res'.access_token # None]_vars

\* a refresh whose lookup came back empty although a record holds the
\* presented token, for another client context
WitnessOtherContext ==
    \E p \in Procs :
        /\ pc[p] = "r_found"
        /\ loc[p].foundToken = None
        /\ \E d \in refresh_tokens :
              /\ d.refreshToken = The(req[p].refresh_token)
              /\ d.userAgent # req[p].userAgent

\* C6: while no login is in flight and both tokens of the login answered last
\* are within their lifetimes, the refresh flow accepts them from the same
\* User-Agent: the lookup finds the record of the refresh token.
FreshLoginTokenAccepted ==
    (/\ res.op = "login" /\ res.status = 201
     /\ \A q \in Procs : pc[q] # "l_revoked"
     /\ verifyAccessToken(The(res.access_token)) # None
     /\ verifyRefreshToken(The(res.refresh_token)) # None)
    => findRefreshToken(The(res.refresh_token), res.userAgent) # None

\* C7: the lookup of a refresh never gives a record whose expiresAt is at or
\* before the current time.
FindNeverReturnsExpired ==
    [][\A p \in Procs :
         (LookupReturns(p) /\ loc'[p].foundToken # None)
         => The(loc'[p].foundToken).expiresAt > DateNow]_vars

\* C8: a refresh that presents a refresh token at or after its exp is
\* answered before the lookup, whatever the store holds: only a token within
\* its signed lifetime gets as far as the store.
ExpiredRefreshTokenRejected ==
    [][\A p \in Procs :
         LookupReturns(p)
         => ClockTimestamp < The(req'[p].refresh_token).claims.exp]_vars

\* a refresh has been answered invalid-token while the store still holds the
\* record of a refresh token whose lifetime has elapsed
WitnessElapsedRejected ==
    /\ res = Error("refresh-token", 400, "Invalid refresh token.")
    /\ \E d \in refresh_tokens :
          /\ d.refreshToken.sig = HS256(configuration.REFRESH_TOKEN_SECRET_KEY, Encoded(d.refreshToken))
          /\ d.refreshToken.claims.exp <= ClockTimestamp

SecretIsolation ==
    /\ res.access_token # None
          => verifyRefreshToken(The(res.access_token)) = None
    /\ res.refresh_token # None
          => verifyAccessToken(The(res.refresh_token)) = None

\* C10, amended: under every configuration whose two secrets differ, the
\* access token is rejected by verifyRefreshToken and the refresh token by
\* verifyAccessToken.
SecretIsolationDistinctSecrets ==
    configuration.SECRET_KEY # configuration.REFRESH_TOKEN_SECRET_KEY
    => SecretIsolation

\* both tokens have been issued under two different secrets, and each is
\* within its lifetime and accepted by its own verification
WitnessBothIssued ==
    /\ configuration.SECRET_KEY # configuration.REFRESH_TOKEN_SECRET_KEY
    /\ res.access_token # None /\ res.refresh_token # None
    /\ verifyAccessToken(The(res.access_token)) # None
    /\ verifyRefreshToken(The(res.refresh_token)) # None

\* C11: the access token issued for a principal p is verified to p's id,
\* full name, role and permissions at every clock value from its issue up to,
\* but not including, issue + lifetime, and is rejected at every clock value
\* from issue + lifetime on.
RoundTripUntilExpiry ==
    res.access_token # None
    => LET token == The(res.access_token)
           p == The(loc[1].user)
           issuedAt == token.claims.iat
           decoded == verifyAccessToken(token)
       IN  /\ issuedAt <= ClockTimestamp
           /\ IF ClockTimestamp < issuedAt + configuration.EXPIRES_IN
              THEN /\ decoded # None
                   /\ The(decoded).id = p.id
                   /\ The(decoded).full_name = p.full_name
                   /\ The(decoded).role = p.role
                   /\ The(decoded).permissions = p.permissions
              ELSE decoded = None

\* the clock stands exactly at issue + lifetime of an access token that was
\* accepted one second before
WitnessAtExpiry ==
    /\ res.access_token # None
    /\ configuration.EXPIRES_IN = 2
    /\ The(res.access_token).claims.iat = 0
    /\ ClockTimestamp = 2
    /\ verifyAccessToken(The(res.access_token)) = None

\* a refresh token that is malformed, whose signature does not match its
\* payload under the refresh secret, or whose exp has passed
InvalidRefreshToken(token) ==
    \/ token = Malformed
    \/ token.sig # HS256(configuration.REFRESH_TOKEN_SECRET_KEY, Encoded(token))
    \/ token.claims.exp <= ClockTimestamp

\* C12: verifyToken gives null, as a value, for a malformed token, for a
\* token whose signature does not match (a tampered payload included) and
\* for a token past its exp; the refresh handler answers a request that
\* carries such a refresh token with 400 "Invalid refresh token." before its
\* first await, whatever the User-Agent.
InvalidTokenIsAnswered ==
    \A refresh_token \in PresentedAs(res.refresh_token),
       userAgent \in UserAgents \cup {""} :
       (refresh_token # None /\ InvalidRefreshToken(The(refresh_token)))
       => /\ verifyRefreshToken(The(refresh_token)) = None
          /\ refreshTokenRejection(refresh_token, userAgent)
                = Some(Error("refresh-token", 400, "Invalid refresh token."))

\* a refresh whose bearer was accepted has been answered invalid-token for a
\* refresh token whose signature does not match its payload
WitnessBadSignatureAnswered ==
    /\ res = Error("refresh-token", 400, "Invalid refresh token.")
    /\ logged = "Verify Token Failed: invalid signature"

\* C13: a login passes its checks only if email and password are present, a
\* user with the email is registered, the password is the one whose hash is
\* stored, both lifetimes let jwt.sign issue a token and the User-Agent is
\* present; otherwise it is rejected by the first of these that fails, in
\* this order: 400 required fields, 400 not registered, 400 password
\* incorrect, 500 issuance failed, 400 User-Agent missing.  A login suspended
\* past the checks holds both tokens, and a login answered 201 returns them.
LoginChecksInOrder ==
    /\ \A email \in Emails \cup {""}, password \in Passwords \cup {""},
          userAgent \in UserAgents \cup {""} :
          LET registered == {u \in users : u.email = email}
              rejection == loginRejection(email, password, userAgent)
          IN  IF email = "" \/ password = ""
              THEN rejection = Some(Error("login", 400,
                                          "Email and password are required fields."))
              ELSE IF registered = {}
              THEN rejection = Some(Error("login", 400, "The user is not registered."))
              ELSE IF \A u \in registered : u.password # hashPassword(password)
              THEN rejection = Some(Error("login", 400, "Password is incorrect."))
              ELSE IF \/ ~IsInteger(configuration.EXPIRES_IN)
                      \/ ~IsInteger(configuration.REFRESH_TOKEN_EXPIRES_IN)
              THEN /\ rejection # None
                   /\ The(rejection).status = 500
                   /\ The(rejection).access_token = None
                   /\ The(rejection).refresh_token = None
              ELSE IF userAgent = ""
              THEN rejection = Some(Error("login", 400, "User-Agent header is missing"))
              ELSE rejection = None
    /\ \A p \in Procs :
          pc[p] = "l_revoked"
          => /\ req[p].email # "" /\ req[p].password # "" /\ req[p].userAgent # ""
             /\ \E u \in users : /\ u.email = req[p].email
                                  /\ u.password = hashPassword(req[p].password)
             /\ loc[p].accessTokenResult # None
             /\ loc[p].refreshTokenResult # None
    /\ (res.op = "login" /\ res.status = 201)
          => /\ res.access_token # None
             /\ res.refresh_token # None
             /\ res.userAgent # ""

\* a login with the right password and a User-Agent has been rejected with
\* 500 because the refresh token could not be issued
WitnessIssuanceFailed ==
    /\ res = Error("login", 500, "Failed to generate refresh token.")
    /\ logged = "Generate Refresh Token Failed"

RefreshMintsBearerClaims ==
    [][\A p \in Procs :
         (pc[p] = "r_found" /\ pc'[p] = "idle" /\ res'.status = 201)
         => LET bearer == The(loc[p].user)
                minted == The(res'.access_token).claims
            IN  /\ minted.id = bearer.id
                /\ minted.full_name = bearer.full_name
                /\ minted.role = bearer.role
                /\ minted.permissions = bearer.permissions]_vars

\* a refresh has returned an access token with the role the user had at the
\* login, while the user document holds another role
WitnessStaleRole ==
    /\ res.op = "refresh-token" /\ res.status = 201
    /\ \E u \in users :
          /\ u.id = The(res.access_token).claims.id
          /\ u.role # The(res.access_token).claims.role

\* C16: a response of the refresh flow carries no refresh token, and the
\* store changes in no step of the refresh flow: every step that changes it
\* is the revocation of a login, the creation of a login, or a pass of the
\* TTL monitor that removes expired documents.  A refresh token therefore
\* finds its record again in the next refresh.
RefreshLeavesStore ==
    [][/\ res'.op = "refresh-token" => res'.refresh_token = None
       /\ refresh_tokens' # refresh_tokens
          => \/ \E p \in Procs : pc[p] = "idle" /\ pc'[p] = "l_revoked"
             \/ \E p \in Procs : LoginCompletes(p)
             \/ /\ refresh_tokens' = {d \in refresh_tokens : ~Expired(d)}
                /\ UNCHANGED <<pc, res, logged, now, users>>]_vars

\* right after a refresh that returned an access token, another refresh has
\* found the record of the refresh token it presented
WitnessRefreshedAgain ==
    /\ res.op = "refresh-token" /\ res.status = 201
    /\ Cardinality(refresh_tokens) = 1
    /\ \E p \in Procs : pc[p] = "r_found" /\ loc[p].foundToken # None

\* C17: a refresh request whose Authorization header is missing, or whose
\* bearer is not signed with the access secret over its payload, or whose
\* bearer is past its exp, is answered 401 by the guard before the handler
\* runs, whatever refresh token and User-Agent it carries; a handler that is
\* suspended at the lookup has the principal the guard attached.
GuardRejectsBadBearer ==
    /\ \A authorization \in PresentedAs(res.access_token),
          refresh_token \in PresentedRefresh,
          userAgent \in UserAgents \cup {""} :
          (\/ authorization = None
           \/ The(authorization).sig
                 # HS256(configuration.SECRET_KEY, Encoded(The(authorization)))
           \/ The(authorization).claims.exp <= ClockTimestamp)
          => refreshTokenAnswer(authorization, refresh_token, userAgent)
               = Some(Error("refresh-token", 401, "UnauthorizedError"))
    /\ \A p \in Procs : pc[p] = "r_found" => loc[p].user # None

\* a refresh has been answered 401 for a bearer past its exp while the
\* store holds the record of a refresh token that is still valid
WitnessExpiredBearerRejected ==
    /\ res = Error("refresh-token", 401, "UnauthorizedError")
    /\ logged = "Verify Token Failed: jwt expired"
    /\ \E d \in refresh_tokens : verifyRefreshToken(d.refreshToken) # None

\* the access token that login issued together with the refresh token
\* `token`: the same payload, signed in the same second
AccessTokenOf(token) ==
    LET claims == [token.claims EXCEPT
                     !.exp = token.claims.iat + configuration.EXPIRES_IN]
        body == [claims |-> claims, keys |-> token.keys]
    IN  [claims |-> claims, keys |-> token.keys,
         sig |-> HS256(configuration.SECRET_KEY, Encoded(body))]

\* C18: whether verifyAccessToken accepts an access token does not depend on
\* the store: when a step removes the refresh record of a session, by the
\* revocation of a later login or by the TTL monitor, the access token of
\* that session is accepted after the step as long as its own exp has not
\* come.
AccessTokenOutlivesRecord ==
    [][/\ \A p \in Procs :
            (LoginCompletes(p) /\ res'.status = 201)
            => The(res'.access_token) = AccessTokenOf(The(res'.refresh_token))
       /\ \A d \in refresh_tokens \ refresh_tokens' :
            LET token == AccessTokenOf(d.refreshToken)
            IN  ClockTimestamp' < token.claims.exp
                => (verifyAccessToken(token) # None)']_vars

\* a later login from the same context has revoked the record of the login
\* answered last, whose access token is still accepted
WitnessRevokedSessionAccepted ==
    /\ res.op = "login" /\ res.status = 201
    /\ verifyAccessToken(The(res.access_token)) # None
    /\ \A d \in refresh_tokens : d.refreshToken # The(res.refresh_token)
    /\ \E p \in Procs :
          /\ pc[p] = "l_revoked"
          /\ req[p].userAgent = res.userAgent
          /\ loc[p].deletedCount >= 1

\* bit `perm` is set in `bitfield`
HasPermission(bitfield, perm) == BitAnd(bitfield, perm) = perm

\* C19: calculatePermissions gives a bitfield with the DEFAULT bit for each
\* of the roles user, moderator and admin, and so the DEFAULT bit is set in
\* the permissions of every user document, as registered or as given a role.
EveryRoleHasDefault ==
    /\ \A role \in RoleNames :
          HasPermission(calculatePermissions(role), DEFAULT)
    /\ \A u \in users : HasPermission(u.permissions, DEFAULT)

\* all three roles are in use or have been computed: one user is a
\* moderator, another an admin
WitnessRolesInUse ==
    \E u, v \in users :
        /\ u.role = "moderator" /\ u.permissions = DEFAULT + MANAGE_BLOG
        /\ v.role = "admin" /\ v.permissions = DEFAULT + MANAGE_BLOG + MANAGE_USERS

\* C20: every bit of calculatePermissions("user") is set in
\* calculatePermissions("moderator"), and every bit of that in
\* calculatePermissions("admin").
RolesAreNested ==
    /\ HasPermission(calculatePermissions("moderator"),
                     calculatePermissions("user"))
    /\ HasPermission(calculatePermissions("admin"),
                     calculatePermissions("moderator"))
    /\ \A u, v \in users :
          (u.role = "user" /\ v.role # "user") \/ (u.role = "moderator" /\ v.role = "admin")
          => HasPermission(v.permissions, u.permissions)

\* a user has been given the role moderator and then the role admin, whose
\* permissions hold every bit a moderator has, and one more
WitnessAdminAboveModerator ==
    \E v \in users :
        /\ v.role = "admin"
        /\ HasPermission(v.permissions, calculatePermissions("moderator"))
        /\ v.permissions # calculatePermissions("moderator")

\* C21: the access token and the refresh token of a login answered 201 carry
\* the role of the user document that the login read, and as permissions the
\* bitfield that calculatePermissions gives for that role.
LoginBitfieldOfRole ==
    [][\A p \in Procs :
         (LoginCompletes(p) /\ res'.status = 201)
         => LET existingUser == The(loc[p].existingUser)
                access == The(res'.access_token).claims
                refresh == The(res'.refresh_token).claims
            IN  /\ access.role = existingUser.role
                /\ refresh.role = existingUser.role
                /\ access.permissions = calculatePermissions(existingUser.role)
                /\ refresh.permissions = calculatePermissions(existingUser.role)]_vars

\* C22: the access token and the refresh token of every answer of login and
\* of refresh, and the refresh token of every record that a login stored,
\* carry permissions with the DEFAULT bit.
IssuedTokensHaveDefault ==
    /\ \A token \in res.access_token \cup res.refresh_token :
          HasPermission(token.claims.permissions, DEFAULT)
    /\ \A d \in refresh_tokens :
          HasPermission(d.refreshToken.claims.permissions, DEFAULT)

\* a refresh has returned an access token to a user who logged in as admin
WitnessAdminRefreshed ==
    /\ res.op = "refresh-token" /\ res.status = 201
    /\ The(res.access_token).claims.role = "admin"
    /\ The(res.access_token).claims.permissions
          = DEFAULT + MANAGE_BLOG + MANAGE_USERS

\* C23: a register request that completes while a user document holds its
\* email is answered 400 "User is already registered", and no step of a
\* register leaves two user documents with one email.
DuplicateRegisterIs400 ==
    [][\A p \in Procs :
         (pc[p] = "g_found" /\ pc'[p] = "idle")
         => /\ (\E u \in users : u.email = req[p].email)
               => /\ res' = Error("register", 400, "User is already registered")
                  /\ users' = users
            /\ \A u, v \in users' : u.email = v.email => u = v]_vars

\* the login of slot p repeats the login that was answered last: the same
\* user from the same client context, after that login was answered 201
RetriesLastLogin(p) ==
    /\ pc[p] = "l_revoked"
    /\ res.op = "login" /\ res.status = 201
    /\ res.userAgent = req[p].userAgent
    /\ The(res.refresh_token).claims.id = The(loc[p].existingUser).id

\* C24: when a login repeats the login answered last and is answered 201 in
\* its turn, the store holds exactly one record of the (user, client
\* context) pair, the one a first login that succeeded leaves.
LoginRetryLeavesOneRecord ==
    [][\A p \in Procs :
         (RetriesLastLogin(p) /\ LoginCompletes(p) /\ res'.status = 201)
         => Cardinality(PairRecords(refresh_tokens',
                The(loc[p].existingUser).id, req[p].userAgent)) = 1]_vars

\* C25: no handler is ever left with an exception that one of the operations
\* it awaits has thrown: a failure of an operation comes back as a value.
NoExceptionInHandler ==
    \A p \in Procs : pc[p] # "l_thrown"

\* C26: with one request in flight at a time, the bearer that a refresh
\* presented and the guard accepted is the access token of the response sent
\* last.  The access token of a refresh answered 201 differs from that
\* bearer, and from the access token of the login that stored the record the
\* refresh has found.
RefreshedTokenIsNew ==
    [][\A p \in Procs :
         (pc[p] = "r_found" /\ pc'[p] = "idle" /\ res'.status = 201)
         => /\ The(res'.access_token) # The(res.access_token)
            /\ The(res'.access_token)
                  # AccessTokenOf(The(loc[p].foundToken).refreshToken)]_vars

\* C27: every record expires at the instant at which the refresh token it
\* stores does: its expiresAt, in milliseconds, is the exp of the token, in
\* seconds, so that the TTL monitor removes a record neither before nor after
\* verifyRefreshToken stops accepting its token.
RecordExpiresWithToken ==
    \A d \in refresh_tokens :
        /\ d.expiresAt = d.refreshToken.claims.exp * MsPerSec
        /\ Expired(d) <=> verifyRefreshToken(d.refreshToken) = None

\* C28, as stated: a refresh is answered 201 only if the record that its
\* lookup has found is owned by the user of the principal that the guard
\* attached.
RefreshOnlyOnOwnRecord ==
    [][\A p \in Procs :
         (pc[p] = "r_found" /\ pc'[p] = "idle" /\ res'.status = 201)
         => The(loc[p].foundToken).userId = The(loc[p].user).id]_vars

\* C28, amended: a refresh is answered 201 only if its lookup has found a
\* record with the presented token string and User-Agent; the owner of the
\* record is not compared with the principal.  The access token is minted
\* also on the record of another user, and then for the user of the bearer,
\* never for the owner of the record.
RefreshOnAnyRecordForBearer ==
    [][\A p \in Procs :
         (pc[p] = "r_found" /\ pc'[p] = "idle" /\ res'.status = 201)
         => LET foundToken == The(loc[p].foundToken)
                minted == The(res'.access_token).claims
            IN  /\ loc[p].foundToken # None
                /\ foundToken.refreshToken = The(req[p].refresh_token)
                /\ foundToken.userAgent = req[p].userAgent
                /\ foundToken.userId # The(loc[p].user).id
                   => /\ minted.id = The(loc[p].user).id
                      /\ minted.id # foundToken.userId]_vars

\* a refresh has been answered 201 with an access token for a user who owns
\* no record, in a second in which no record can have expired: the record it
\* matched is the one of the other user
WitnessMintedOnForeignRecord ==
    /\ res.op = "refresh-token" /\ res.status = 201
    /\ now = 0
    /\ refresh_tokens # {}
    /\ \A d \in refresh_tokens : d.userId # The(res.access_token).claims.id

\* C29: in every reachable state the store holds at most one refresh record
\* for each client context, whoever owns it.
AtMostOneRecordPerContext ==
    \A userAgent \in UserAgents :
        Cardinality({d \in refresh_tokens : d.userAgent = userAgent}) <= 1

\* a login has just been answered whose record the unique index refused,
\* because the record of another user holds the client context
WitnessContextHeldByOther ==
    /\ res.op = "login" /\ res.status = 201
    /\ logged = "Refresh Token Create Failed: E11000 duplicate key error"
    /\ \E d \in refresh_tokens :
          /\ d.userAgent = res.userAgent
          /\ d.userId # The(res.refresh_token).claims.id

\* C30: in every reachable state each user owns at most one refresh record,
\* over all client contexts.
AtMostOneRecordPerUser ==
    \A userId \in UserIds :
        Cardinality({d \in refresh_tokens : d.userId = userId}) <= 1

\* the step in which a login is rejected: an error of login is handed to
\* next() and no handler is suspended or resumed
LoginRejected ==
    /\ pc' = pc
    /\ res'.op = "login" /\ res'.status # 201
    /\ res' # res \/ logged' # logged

\* C31: the step in which a login is rejected, at whichever check, leaves
\* the refresh_tokens collection as it is, and a login gets to its revocation
\* only when it has passed every check.
RejectedLoginLeavesStore ==
    [][/\ LoginRejected => refresh_tokens' = refresh_tokens
       /\ \A p \in Procs :
            (pc[p] = "idle" /\ pc'[p] = "l_revoked")
            => loginRejection(req'[p].email, req'[p].password,
                              req'[p].userAgent) = None]_vars

\* the only registered user, who owns a record, has sent the right password
\* without a User-Agent and has been rejected
WitnessRejectedWithSession ==
    /\ res = Error("login", 400, "User-Agent header is missing")
    /\ Cardinality(users) = 1
    /\ \E d \in refresh_tokens : \E u \in users : d.userId = u.id

\* C32: revokeUserRefreshTokensByUserAgent(userId, userAgent) keeps every
\* record that is neither of the user nor of the client context, and so does
\* a login: its revocation step leaves each such record in the store as it
\* is, and its creation step removes no record at all.
RevokeKeepsOtherRecords ==
    [][\A p \in Procs :
         /\ (pc[p] = "idle" /\ pc'[p] = "l_revoked")
            => \A d \in refresh_tokens :
                  (/\ d.userId # The(loc'[p].existingUser).id
                   /\ d.userAgent # req'[p].userAgent)
                  => /\ d \in refresh_tokens'
                     /\ d \in revokeUserRefreshTokensByUserAgent(
                                  The(loc'[p].existingUser).id, req'[p].userAgent)
         /\ LoginCompletes(p) => refresh_tokens \subseteq refresh_tokens']_vars

\* a revocation has deleted a record and has left the record of another
\* user on another client context in the store
WitnessOtherRecordKept ==
    \E p \in Procs :
        /\ pc[p] = "l_revoked"
        /\ loc[p].deletedCount >= 1
        /\ \E d \in refresh_tokens :
              /\ d.userId # The(loc[p].existingUser).id
              /\ d.userAgent # req[p].userAgent

\* C33: every register, login and refresh request that a handler has taken up
\* eventually ends, with a response or an error sent, and its slot is free
\* again, in every execution, those with a failing lookup included.
EveryRequestEnds ==
    \A p \in Procs : (pc[p] # "idle") ~> (pc[p] = "idle")

====
